---- MODULE Spec2Model ----
(***************************************************************************)
(* Sign-language animation pipeline of Synapto: gloss resolver, lip-sync   *)
(* engine and the playback timeline of the SignLanguage3D component.       *)
(*                                                                         *)
(* Texts are sequences of one-character strings.  Times are milliseconds.  *)
(* Lip-sync frame times are rationals with denominator wordsPerMinute;     *)
(* a frame list carries its wpm and each frame the numerator.              *)
(* The speed multiplier is kept in halves: speed = 2 stands for 1x.        *)
(***************************************************************************)
EXTENDS Integers, Sequences, FiniteSets, TLC

\* ------------------------------------------------------------------------
\* Bounds of the model
\* ------------------------------------------------------------------------
\* largest item, keyframe and letter index the advancement timer may produce
MaxPos == 3
\* most advancement callbacks counted in one undisturbed playback
MaxAdvance == 3
\* most lip-sync periods the clock advances
MaxTicks == 2
\* most words of a text given to the gloss resolver word by word
MaxWords == 3
\* most characters of a text given to a function character by character
MaxChars == 4

\* ------------------------------------------------------------------------
\* Characters
\* ------------------------------------------------------------------------
LowerLetters ==
  {"a","b","c","d","e","f","g","h","i","j","k","l","m",
   "n","o","p","q","r","s","t","u","v","w","x","y","z"}

UpperOf ==
  [c \in LowerLetters |->
     CASE c = "a" -> "A" [] c = "b" -> "B" [] c = "c" -> "C" [] c = "d" -> "D"
       [] c = "e" -> "E" [] c = "f" -> "F" [] c = "g" -> "G" [] c = "h" -> "H"
       [] c = "i" -> "I" [] c = "j" -> "J" [] c = "k" -> "K" [] c = "l" -> "L"
       [] c = "m" -> "M" [] c = "n" -> "N" [] c = "o" -> "O" [] c = "p" -> "P"
       [] c = "q" -> "Q" [] c = "r" -> "R" [] c = "s" -> "S" [] c = "t" -> "T"
       [] c = "u" -> "U" [] c = "v" -> "V" [] c = "w" -> "W" [] c = "x" -> "X"
       [] c = "y" -> "Y" [] c = "z" -> "Z"]

UpperLetters == {UpperOf[c] : c \in LowerLetters}

\* Characters outside ASCII whose lower case reaches into ASCII, named by
\* their code points: the Kelvin sign lowercases to k, the capital I with dot
\* above to i followed by the combining dot above.
KelvinSign == "U+212A"

CapitalIDotted == "U+0130"

CombiningDot == "U+0307"

\* String.prototype.toLowerCase / toUpperCase on one character
toLowerCase(c) ==
  IF c \in UpperLetters THEN CHOOSE l \in LowerLetters : UpperOf[l] = c
  ELSE IF c = KelvinSign THEN "k"
  ELSE c

toUpperCase(c) == IF c \in LowerLetters THEN UpperOf[c] ELSE c

\* toLowerCase on a string whose characters may lowercase to two
RECURSIVE LowerFrom(_, _)
LowerFrom(s, i) ==
  IF i > Len(s) THEN <<>>
  ELSE (IF s[i] = CapitalIDotted THEN <<"i", CombiningDot>> ELSE <<toLowerCase(s[i])>>)
         \o LowerFrom(s, i + 1)

LowerSeq(s) ==
  IF \A i \in 1..Len(s) : s[i] # CapitalIDotted
  THEN [i \in 1..Len(s) |-> toLowerCase(s[i])]
  ELSE LowerFrom(s, 1)

UpperSeq(s) == [i \in 1..Len(s) |-> toUpperCase(s[i])]

\* the regular expression class \s, on the characters the model uses
IsSpace(c) == c \in {" ", "\t", "\n"}

\* ------------------------------------------------------------------------
\* Pose and animation tables (sign-poses.ts)
\* ------------------------------------------------------------------------
\* A pose is named by the table entry that holds it.
Pose(src, tbl, name, k) == [src |-> src, tbl |-> tbl, name |-> name, k |-> k]

REST_POSE == Pose("rest", "", <<>>, 0)

Anim(key, tbl, type, n, durations, loop) ==
  [key |-> key, tbl |-> tbl, type |-> type,
   poses |-> [i \in 1..n |-> Pose("word", tbl, key, i - 1)],
   durations |-> durations, loop |-> loop]

ASL_WORD_ANIMATIONS ==
  {Anim(<<"h","e","l","l","o">>, "asl", "motion", 3, <<400,350,300>>, FALSE),
   Anim(<<"t","h","a","n","k"," ","y","o","u">>, "asl", "motion", 2, <<500,400>>, FALSE),
   Anim(<<"t","h","a","n","k","s">>, "asl", "motion", 2, <<500,400>>, FALSE),
   Anim(<<"p","l","e","a","s","e">>, "asl", "motion", 3, <<400,400,400>>, TRUE),
   Anim(<<"y","e","s">>, "asl", "motion", 3, <<300,300,300>>, FALSE),
   Anim(<<"n","o">>, "asl", "motion", 2, <<250,250>>, FALSE),
   Anim(<<"s","o","r","r","y">>, "asl", "motion", 3, <<400,400,400>>, TRUE),
   Anim(<<"h","e","l","p">>, "asl", "motion", 2, <<500,400>>, FALSE),
   Anim(<<"l","o","v","e">>, "asl", "static", 1, <<>>, FALSE),
   Anim(<<"f","r","i","e","n","d">>, "asl", "motion", 2, <<400,400>>, FALSE),
   Anim(<<"l","e","a","r","n">>, "asl", "motion", 2, <<500,500>>, FALSE),
   Anim(<<"g","o","o","d">>, "asl", "motion", 2, <<400,400>>, FALSE),
   Anim(<<"b","a","d">>, "asl", "motion", 2, <<400,350>>, FALSE),
   Anim(<<"w","a","n","t">>, "asl", "motion", 2, <<400,400>>, FALSE),
   Anim(<<"n","e","e","d">>, "asl", "motion", 2, <<350,350>>, FALSE),
   Anim(<<"e","a","t">>, "asl", "motion", 3, <<300,250,300>>, TRUE),
   Anim(<<"d","r","i","n","k">>, "asl", "motion", 2, <<500,500>>, FALSE),
   Anim(<<"w","a","t","e","r">>, "asl", "motion", 3, <<300,250,300>>, FALSE),
   Anim(<<"h","o","m","e">>, "asl", "motion", 2, <<400,400>>, FALSE),
   Anim(<<"s","c","h","o","o","l">>, "asl", "motion", 3, <<300,250,300>>, FALSE),
   Anim(<<"w","o","r","k">>, "asl", "motion", 3, <<300,250,300>>, FALSE),
   Anim(<<"n","a","m","e">>, "asl", "motion", 2, <<350,350>>, FALSE),
   Anim(<<"w","h","a","t">>, "asl", "motion", 2, <<350,350>>, FALSE),
   Anim(<<"w","h","e","r","e">>, "asl", "motion", 3, <<300,300,300>>, FALSE),
   Anim(<<"h","o","w">>, "asl", "motion", 2, <<500,500>>, FALSE),
   Anim(<<"w","h","y">>, "asl", "motion", 2, <<500,500>>, FALSE),
   Anim(<<"s","t","o","p">>, "asl", "motion", 2, <<300,300>>, FALSE),
   Anim(<<"g","o">>, "asl", "motion", 2, <<400,400>>, FALSE),
   Anim(<<"c","o","m","e">>, "asl", "motion", 2, <<400,400>>, FALSE),
   Anim(<<"h","a","p","p","y">>, "asl", "motion", 3, <<350,300,350>>, FALSE),
   Anim(<<"s","a","d">>, "asl", "motion", 2, <<600,600>>, FALSE),
   Anim(<<"u","n","d","e","r","s","t","a","n","d">>, "asl", "motion", 2, <<400,350>>, FALSE),
   Anim(<<"t","h","i","n","k">>, "asl", "static", 1, <<>>, FALSE),
   Anim(<<"k","n","o","w">>, "asl", "motion", 2, <<350,350>>, FALSE),
   Anim(<<"l","i","k","e">>, "asl", "motion", 2, <<500,400>>, FALSE),
   Anim(<<"d","o","n">>, "asl", "motion", 2, <<350,350>>, FALSE),
   Anim(<<"c","a","n">>, "asl", "motion", 2, <<400,400>>, FALSE),
   Anim(<<"m","o","r","e">>, "asl", "motion", 3, <<300,250,300>>, FALSE),
   Anim(<<"t","e","a","c","h","e","r">>, "asl", "motion", 3, <<400,350,400>>, FALSE),
   Anim(<<"s","t","u","d","e","n","t">>, "asl", "motion", 3, <<400,400,400>>, FALSE),
   Anim(<<"f","a","m","i","l","y">>, "asl", "motion", 2, <<500,500>>, TRUE),
   Anim(<<"p","l","a","y">>, "asl", "motion", 3, <<300,300,300>>, FALSE),
   Anim(<<"t","i","m","e">>, "asl", "motion", 2, <<350,350>>, FALSE),
   Anim(<<"t","o","d","a","y">>, "asl", "motion", 2, <<400,400>>, FALSE)}

ISL_OVERRIDES ==
  {Anim(<<"h","e","l","l","o">>, "isl", "motion", 3, <<500,400,500>>, FALSE),
   Anim(<<"t","h","a","n","k"," ","y","o","u">>, "isl", "motion", 2, <<500,500>>, FALSE),
   Anim(<<"w","a","t","e","r">>, "isl", "motion", 2, <<500,500>>, FALSE),
   Anim(<<"s","c","h","o","o","l">>, "isl", "motion", 3, <<350,300,350>>, FALSE),
   Anim(<<"g","o","o","d">>, "isl", "motion", 2, <<400,400>>, FALSE)}

\* ISL table: the ASL entries, overridden by the ISL-specific ones
ISL_WORD_ANIMATIONS ==
  {a \in ASL_WORD_ANIMATIONS : \A o \in ISL_OVERRIDES : o.key # a.key}
    \cup ISL_OVERRIDES

ASL_LETTER_POSES == [c \in LowerLetters |-> Pose("letter", "asl", <<c>>, 0)]

ISL_LETTER_POSES == [c \in LowerLetters |-> Pose("letter", "isl", <<c>>, 0)]

getLetterPoses(mode) == IF mode = "isl" THEN ISL_LETTER_POSES ELSE ASL_LETTER_POSES

getWordAnimations(mode) ==
  IF mode = "isl" THEN ISL_WORD_ANIMATIONS ELSE ASL_WORD_ANIMATIONS

\* The tables are object literals: a key they do not hold is looked up in
\* Object.prototype.  Of its properties only constructor has a name made of
\* lowercase letters; its value is the function Object.
Inherited ==
  [key |-> <<"c","o","n","s","t","r","u","c","t","o","r">>, type |-> "function"]

\* wordAnimations[key] is truthy
HasAnim(tbl, key) == key = Inherited.key \/ \E a \in tbl : a.key = key

\* wordAnimations[key]
AnimOf(tbl, key) ==
  IF \E a \in tbl : a.key = key THEN CHOOSE a \in tbl : a.key = key ELSE Inherited

\* ------------------------------------------------------------------------
\* Gloss resolver (sign-poses.ts, textToSignGloss)
\* ------------------------------------------------------------------------
\* the normalisation without the replace
StripTextKeepsAll(text) == LowerSeq(text)

\* text.toLowerCase().replace(/[^a-z\s]/g, '')
StripText(text) ==
  SelectSeq(LowerSeq(text), LAMBDA c : c \in LowerLetters \/ IsSpace(c))

\* .split(/\s+/).filter(Boolean): the maximal runs of non-space characters
RECURSIVE SplitWords(_, _, _)
SplitWords(s, i, cur) ==
  IF i > Len(s) THEN (IF cur = <<>> THEN <<>> ELSE <<cur>>)
  ELSE IF IsSpace(s[i])
       THEN (IF cur = <<>> THEN <<>> ELSE <<cur>>) \o SplitWords(s, i + 1, <<>>)
       ELSE SplitWords(s, i + 1, Append(cur, s[i]))

NormalizedWords(text) == SplitWords(StripText(text), 1, <<>>)

\* the word item that keeps its key in lowercase
WordItemLowerValue(key, anim) == [type |-> "word", value |-> key, animation |-> anim]

WordItem(key, anim) == [type |-> "word", value |-> UpperSeq(key), animation |-> anim]

FingerspellItem(word, letterPoses) ==
  [type |-> "fingerspell", value |-> UpperSeq(word),
   letterPoses |->
     LET known == SelectSeq(word, LAMBDA c : c \in DOMAIN letterPoses)
     IN  [j \in 1..Len(known) |-> letterPoses[known[j]]]]

\* the scan without the phrase windows
RECURSIVE GlossFromSingleWords(_, _, _, _)
GlossFromSingleWords(words, i, wordAnimations, letterPoses) ==
  IF i > Len(words) THEN <<>>
  ELSE IF HasAnim(wordAnimations, words[i])
  THEN <<WordItem(words[i], AnimOf(wordAnimations, words[i]))>>
         \o GlossFromSingleWords(words, i + 1, wordAnimations, letterPoses)
  ELSE <<FingerspellItem(words[i], letterPoses)>>
         \o GlossFromSingleWords(words, i + 1, wordAnimations, letterPoses)

RECURSIVE GlossFrom(_, _, _, _)
GlossFrom(words, i, wordAnimations, letterPoses) ==
  IF i > Len(words) THEN <<>>
  ELSE
    LET threeWord == IF i + 2 <= Len(words)
                     THEN words[i] \o <<" ">> \o words[i + 1] \o <<" ">> \o words[i + 2]
                     ELSE <<>>
        twoWord == IF i + 1 <= Len(words)
                   THEN words[i] \o <<" ">> \o words[i + 1]
                   ELSE <<>>
    IN  IF i + 2 <= Len(words) /\ HasAnim(wordAnimations, threeWord)
        THEN <<WordItem(threeWord, AnimOf(wordAnimations, threeWord))>>
               \o GlossFrom(words, i + 3, wordAnimations, letterPoses)
        ELSE IF i + 1 <= Len(words) /\ HasAnim(wordAnimations, twoWord)
        THEN <<WordItem(twoWord, AnimOf(wordAnimations, twoWord))>>
               \o GlossFrom(words, i + 2, wordAnimations, letterPoses)
        ELSE IF HasAnim(wordAnimations, words[i])
        THEN <<WordItem(words[i], AnimOf(wordAnimations, words[i]))>>
               \o GlossFrom(words, i + 1, wordAnimations, letterPoses)
        ELSE <<FingerspellItem(words[i], letterPoses)>>
               \o GlossFrom(words, i + 1, wordAnimations, letterPoses)

textToSignGloss(text, mode) ==
  GlossFrom(NormalizedWords(text), 1, getWordAnimations(mode), getLetterPoses(mode))

\* ------------------------------------------------------------------------
\* Lip-sync engine (lip-sync-engine.ts)
\* ------------------------------------------------------------------------
CHAR_TO_VISEME(c) ==
  CASE c \in {"b", "m", "p"} -> "mbp"
    [] c \in {"f", "v"} -> "fv"
    [] c \in {"t", "d", "n", "l"} -> "tdnl"
    [] c \in {"s", "z"} -> "sz"
    [] c \in {"k", "g", "c", "q", "x"} -> "kgng"
    [] c = "r" -> "r"
    [] c = "w" -> "w"
    [] c = "h" -> "ah"
    [] c = "j" -> "shch"
    [] c = "y" -> "ee"
    [] c = "a" -> "ae"
    [] c = "e" -> "eh"
    [] c = "i" -> "ih"
    [] c = "o" -> "oh"
    [] c = "u" -> "uh"
    [] OTHER -> "rest"

\* numerators, over wordsPerMinute, of the two frame durations:
\* msPerChar = 60000 / wpm / 5; a vowel lasts 1.3 of it, any other char 0.8
VowelDurNum == 15600
OtherDurNum == 9600

\* the duration that does not tell vowels from other characters
DurNumEqual(c) == OtherDurNum

DurNum(c) == IF c \in {"a", "e", "i", "o", "u"} THEN VowelDurNum ELSE OtherDurNum

\* the running time that counts every character as a consonant
SumDurFlat(chars, n) == n * OtherDurNum

RECURSIVE SumDur(_, _)
SumDur(chars, n) == IF n = 0 THEN 0 ELSE SumDur(chars, n - 1) + DurNum(chars[n])

generateLipSync(text, wordsPerMinute) ==
  LET chars == LowerSeq(text)
  IN  [wpm |-> wordsPerMinute,
       frames |-> [i \in 1..Len(chars) |->
                     [viseme |-> CHAR_TO_VISEME(chars[i]), character |-> chars[i],
                      time |-> SumDur(chars, i - 1), duration |-> DurNum(chars[i])]]]

NoFrames == [wpm |-> 1, frames |-> <<>>]

\* the scan that stops at the last frame whatever its time
ScanVisemeLastFrame(fl, currentTime, i) ==
  IF i = 0 THEN "rest" ELSE fl.frames[i].viseme

\* reverse scan: the last frame with frames[i].time <= currentTime
RECURSIVE ScanViseme(_, _, _)
ScanViseme(fl, currentTime, i) ==
  IF i = 0 THEN "rest"
  ELSE IF currentTime * fl.wpm >= fl.frames[i].time THEN fl.frames[i].viseme
       ELSE ScanViseme(fl, currentTime, i - 1)

getVisemeAtTime(fl, currentTime) ==
  IF Len(fl.frames) = 0 THEN "rest" ELSE ScanViseme(fl, currentTime, Len(fl.frames))

\* ------------------------------------------------------------------------
\* Numbers (IEEE 754 binary64)
\* ------------------------------------------------------------------------
\* The numbers of the tables, the emotion scores, their differences and the
\* sums of these are multiples of 2^-60 below 16.  Such a double is kept as its sign and
\* the FixedBits bits of its magnitude, the first of weight 2^3 and the last
\* of weight 2^-60; a result is rounded to Significand significant bits, to
\* nearest, ties to even.  Zero carries no sign: === does not tell -0 from 0.
FixedBits == 64

Significand == 53

\* the bits of the hexadecimal digits h
FromHex(h) ==
  [i \in 1..FixedBits |->
     LET d == h[((i - 1) \div 4) + 1]
         k == (i - 1) % 4
     IN  IF k = 0 THEN d \div 8
         ELSE IF k = 1 THEN (d \div 4) % 2
         ELSE IF k = 2 THEN (d \div 2) % 2
         ELSE d % 2]

\* the double of the decimal literal s of the pose, viseme and expression tables
Number(s) ==
  [neg |-> FALSE,
   bits |-> FromHex(
     CASE s = "0" -> <<0,0,0,0,0,0,0,0,0,0,0,0,0,0,0,0>>
          [] s = "0.05" -> <<0,0,12,12,12,12,12,12,12,12,12,12,12,12,13,0>>
          [] s = "0.1" -> <<0,1,9,9,9,9,9,9,9,9,9,9,9,9,10,0>>
          [] s = "0.15" -> <<0,2,6,6,6,6,6,6,6,6,6,6,6,6,6,0>>
          [] s = "0.2" -> <<0,3,3,3,3,3,3,3,3,3,3,3,3,3,4,0>>
          [] s = "0.25" -> <<0,4,0,0,0,0,0,0,0,0,0,0,0,0,0,0>>
          [] s = "0.3" -> <<0,4,12,12,12,12,12,12,12,12,12,12,12,12,12,0>>
          [] s = "0.4" -> <<0,6,6,6,6,6,6,6,6,6,6,6,6,6,8,0>>
          [] s = "0.5" -> <<0,8,0,0,0,0,0,0,0,0,0,0,0,0,0,0>>
          [] s = "0.6" -> <<0,9,9,9,9,9,9,9,9,9,9,9,9,9,8,0>>
          [] s = "0.8" -> <<0,12,12,12,12,12,12,12,12,12,12,12,12,13,0,0>>
          [] s = "1" -> <<1,0,0,0,0,0,0,0,0,0,0,0,0,0,0,0>>
          [] s = "1.2" -> <<1,3,3,3,3,3,3,3,3,3,3,3,3,3,0,0>>
          [] s = "1.5" -> <<1,8,0,0,0,0,0,0,0,0,0,0,0,0,0,0>>
          [] s = "0.35" -> <<0,5,9,9,9,9,9,9,9,9,9,9,9,9,8,0>>
          [] s = "0.45" -> <<0,7,3,3,3,3,3,3,3,3,3,3,3,3,4,0>>
          [] s = "0.7" -> <<0,11,3,3,3,3,3,3,3,3,3,3,3,3,0,0>>
          [] s = "0.75" -> <<0,12,0,0,0,0,0,0,0,0,0,0,0,0,0,0>>
          [] s = "0.85" -> <<0,13,9,9,9,9,9,9,9,9,9,9,9,9,8,0>>
          [] s = "0.9" -> <<0,14,6,6,6,6,6,6,6,6,6,6,6,6,8,0>>
          [] s = "1.1" -> <<1,1,9,9,9,9,9,9,9,9,9,9,9,10,0,0>>)]

IsZero(b) == \A i \in 1..FixedBits : b[i] = 0

BitsLess(a, b) ==
  \E i \in 1..FixedBits : a[i] < b[i] /\ \A j \in 1..(i - 1) : a[j] = b[j]

\* a + b from bit i down to the first, with the carry c into bit i: the
\* carry into bit k comes from the nearest lower bit m that does not merely
\* pass a carry on (one bit set), and is c when every lower bit passes it on
AddFrom(a, b, i, c) ==
  LET x == SubSeq(a, 1, i)
      y == SubSeq(b, 1, i)
      carry(k) ==
        IF \A j \in (k + 1)..i : x[j] + y[j] = 1 THEN c
        ELSE LET m == CHOOSE n \in (k + 1)..i :
                        x[n] + y[n] # 1 /\ \A j \in (k + 1)..(n - 1) : x[j] + y[j] = 1
             IN  (x[m] + y[m]) \div 2
  IN  SubSeq([k \in 1..i |-> (x[k] + y[k] + carry(k)) % 2], 1, i)

\* a - b for a >= b, with the borrow c from bit i: the borrow from bit k is
\* asked by the nearest lower bit m with unequal bits, when it is 0 - 1, and
\* is c when all lower bits are equal
SubFrom(a, b, i, c) ==
  LET x == SubSeq(a, 1, i)
      y == SubSeq(b, 1, i)
      borrow(k) ==
        IF \A j \in (k + 1)..i : x[j] = y[j] THEN c
        ELSE LET m == CHOOSE n \in (k + 1)..i :
                        x[n] # y[n] /\ \A j \in (k + 1)..(n - 1) : x[j] = y[j]
             IN  IF x[m] < y[m] THEN 1 ELSE 0
  IN  SubSeq([k \in 1..i |-> (x[k] + y[k] + borrow(k)) % 2], 1, i)

\* round to nearest, ties to even
RoundBits(b) ==
  IF IsZero(b) THEN b
  ELSE LET lead == CHOOSE i \in 1..FixedBits :
                     b[i] = 1 /\ \A j \in 1..(i - 1) : b[j] = 0
           last == lead + Significand - 1
       IN  IF last >= FixedBits THEN b
           ELSE LET kept == [j \in 1..FixedBits |-> IF j <= last THEN b[j] ELSE 0]
                    ulp == [j \in 1..FixedBits |-> IF j = last THEN 1 ELSE 0]
                    sticky == \E j \in (last + 2)..FixedBits : b[j] = 1
                IN  IF b[last + 1] = 1 /\ (sticky \/ b[last] = 1)
                    THEN AddFrom(kept, ulp, FixedBits, 0) ELSE kept

\* x + y
FAdd(x, y) ==
  LET exact == IF x.neg = y.neg
               THEN [neg |-> x.neg, bits |-> AddFrom(x.bits, y.bits, FixedBits, 0)]
               ELSE IF BitsLess(x.bits, y.bits)
               THEN [neg |-> y.neg, bits |-> SubFrom(y.bits, x.bits, FixedBits, 0)]
               ELSE [neg |-> x.neg, bits |-> SubFrom(x.bits, y.bits, FixedBits, 0)]
      r == RoundBits(exact.bits)
  IN  [neg |-> exact.neg /\ ~IsZero(r), bits |-> r]

\* -x
Minus(x) == [neg |-> ~x.neg /\ ~IsZero(x.bits), bits |-> x.bits]

\* x - y
FSub(x, y) == FAdd(x, Minus(y))

\* x * t for a factor t that is a multiple of 1/4: the exact product is the
\* sum of x shifted by the weight of each bit of t, rounded once
FMul(x, t) ==
  LET RECURSIVE MulFrom(_)
      MulFrom(i) ==
        IF \A k \in i..FixedBits : t.bits[k] = 0 THEN [j \in 1..FixedBits |-> 0]
        ELSE LET m == CHOOSE k \in i..FixedBits :
                        t.bits[k] = 1 /\ \A j \in i..(k - 1) : t.bits[j] = 0
                 shifted == [j \in 1..FixedBits |->
                               IF j - (m - 4) \in 1..FixedBits
                               THEN x.bits[j - (m - 4)] ELSE 0]
             IN  AddFrom(shifted, MulFrom(m + 1), FixedBits, 0)
      r == RoundBits(MulFrom(1))
  IN  [neg |-> (x.neg # t.neg) /\ ~IsZero(r), bits |-> r]

\* ------------------------------------------------------------------------
\* Emotion engine (analyzeEmotion)
\* ------------------------------------------------------------------------
EMOTION_KEYWORDS ==
  [happy |->
     {<<"h","a","p","p","y">>, <<"j","o","y">>, <<"g","l","a","d">>,
      <<"g","r","e","a","t">>, <<"w","o","n","d","e","r","f","u","l">>,
      <<"a","m","a","z","i","n","g">>, <<"l","o","v","e">>,
      <<"l","i","k","e">>, <<"g","o","o","d">>,
      <<"b","e","a","u","t","i","f","u","l">>,
      <<"f","a","n","t","a","s","t","i","c">>,
      <<"e","x","c","e","l","l","e","n","t">>,
      <<"a","w","e","s","o","m","e">>, <<"p","e","r","f","e","c","t">>,
      <<"f","u","n">>, <<"s","m","i","l","e">>, <<"l","a","u","g","h">>,
      <<"c","e","l","e","b","r","a","t","e">>, <<"y","e","s">>,
      <<"t","h","a","n","k">>, <<"t","h","a","n","k","s">>,
      <<"w","e","l","c","o","m","e">>, <<"f","r","i","e","n","d">>,
      <<"p","l","a","y">>, <<"e","n","j","o","y">>},
   sad |->
     {<<"s","a","d">>, <<"s","o","r","r","y">>, <<"m","i","s","s">>,
      <<"l","o","n","e","l","y">>, <<"c","r","y">>, <<"t","e","a","r","s">>,
      <<"u","n","h","a","p","p","y">>,
      <<"d","e","p","r","e","s","s","e","d">>, <<"b","a","d">>,
      <<"h","u","r","t">>, <<"p","a","i","n">>, <<"l","o","s","e">>,
      <<"l","o","s","t">>, <<"f","a","i","l">>,
      <<"f","a","i","l","u","r","e">>,
      <<"d","i","s","a","p","p","o","i","n","t">>,
      <<"u","n","f","o","r","t","u","n","a","t","e","l","y">>,
      <<"g","r","i","e","f">>, <<"m","o","u","r","n">>},
   surprised |->
     {<<"s","u","r","p","r","i","s","e">>, <<"w","o","w">>,
      <<"a","m","a","z","i","n","g">>,
      <<"u","n","b","e","l","i","e","v","a","b","l","e">>,
      <<"s","h","o","c","k","e","d">>,
      <<"i","n","c","r","e","d","i","b","l","e">>,
      <<"s","u","d","d","e","n","l","y">>,
      <<"u","n","e","x","p","e","c","t","e","d">>, <<"w","h","a","t">>,
      <<"r","e","a","l","l","y">>, <<"s","e","r","i","o","u","s","l","y">>,
      <<"o","h">>, <<"o","m","g">>},
   angry |->
     {<<"a","n","g","r","y">>, <<"m","a","d">>, <<"h","a","t","e">>,
      <<"f","u","r","i","o","u","s">>, <<"a","w","f","u","l">>,
      <<"t","e","r","r","i","b","l","e">>,
      <<"h","o","r","r","i","b","l","e">>, <<"s","t","o","p">>, <<"n","o">>,
      <<"w","r","o","n","g">>, <<"f","i","g","h","t">>,
      <<"u","n","f","a","i","r">>, <<"a","n","n","o","y","e","d">>,
      <<"f","r","u","s","t","r","a","t","e","d">>,
      <<"s","t","u","p","i","d">>},
   thinking |->
     {<<"t","h","i","n","k">>, <<"w","o","n","d","e","r">>,
      <<"m","a","y","b","e">>, <<"p","e","r","h","a","p","s">>,
      <<"c","o","n","s","i","d","e","r">>,
      <<"q","u","e","s","t","i","o","n">>, <<"h","o","w">>, <<"w","h","y">>,
      <<"u","n","d","e","r","s","t","a","n","d">>, <<"l","e","a","r","n">>,
      <<"k","n","o","w">>, <<"s","t","u","d","y">>,
      <<"a","n","a","l","y","z","e">>, <<"p","r","o","b","l","e","m">>,
      <<"s","o","l","v","e">>, <<"i","d","e","a">>},
   excited |->
     {<<"e","x","c","i","t","e","d">>, <<"t","h","r","i","l","l","e","d">>,
      <<"c","a","n","'","t"," ","w","a","i","t">>, <<"y","a","y">>,
      <<"h","o","o","r","a","y">>, <<"f","a","n","t","a","s","t","i","c">>,
      <<"i","n","c","r","e","d","i","b","l","e">>,
      <<"b","r","i","l","l","i","a","n","t">>,
      <<"a","b","s","o","l","u","t","e","l","y">>,
      <<"d","e","f","i","n","i","t","e","l","y">>,
      <<"t","o","t","a","l","l","y">>},
   confused |->
     {<<"c","o","n","f","u","s","e","d">>,
      <<"d","o","n","'","t"," ","u","n","d","e","r","s","t","a","n","d">>,
      <<"w","h","a","t">>, <<"h","u","h">>, <<"w","e","i","r","d">>,
      <<"s","t","r","a","n","g","e">>, <<"u","n","c","l","e","a","r">>,
      <<"c","o","m","p","l","i","c","a","t","e","d">>,
      <<"d","i","f","f","i","c","u","l","t">>, <<"h","a","r","d">>,
      <<"w","h","e","r","e">>},
   neutral |-> {}]

\* the keys of the scores object, in insertion order
EmotionOrder ==
  <<"neutral", "happy", "sad", "surprised", "angry", "thinking", "excited",
    "confused">>

EmotionTypes == {EmotionOrder[i] : i \in 1..Len(EmotionOrder)}

\* text.toLowerCase().split(/\s+/); the empty strings split also returns at
\* the ends of the text are left out, no keyword being empty
EmotionWords(text) == SplitWords(LowerSeq(text), 1, <<>>)

\* (text.match(/c/g) || []).length
CountChar(text, c) == Cardinality({i \in 1..Len(text) : text[i] = c})

\* the exact values of the scores, in tenths: the baseline 0.1 is 1, a keyword
\* 10, and a punctuation mark 3 or 2
NeutralBaseline == 1

KeywordScore == 10

StrongBonus == 3

WeakBonus == 2

EmotionScores(text) ==
  LET words == EmotionWords(text)
      hits(e) == Cardinality({i \in 1..Len(words) : words[i] \in EMOTION_KEYWORDS[e]})
      exclamations == CountChar(text, "!")
      questions == CountChar(text, "?")
  IN  [e \in EmotionTypes |->
         (IF e = "neutral" THEN NeutralBaseline ELSE 0)
           + KeywordScore * hits(e)
           + (IF e = "excited" THEN StrongBonus * exclamations
              ELSE IF e = "surprised" THEN WeakBonus * exclamations
              ELSE 0)
           + (IF e = "thinking" THEN StrongBonus * questions
              ELSE IF e = "confused" THEN WeakBonus * questions
              ELSE 0)]

\* the scores as the code computes them, in doubles: += 1 for a hit and
\* += marks * 0.3 or marks * 0.2 where there is a mark
EmotionValues(text) ==
  LET words == EmotionWords(text)
      whole(n) == [neg |-> FALSE,
                   bits |-> [j \in 1..FixedBits |->
                               IF j <= 4 THEN (n \div 2^(4 - j)) % 2 ELSE 0]]
      hits(e) == Cardinality({i \in 1..Len(words) : words[i] \in EMOTION_KEYWORDS[e]})
      boost(x, marks, weight) ==
        IF marks > 0 THEN FAdd(x, FMul(Number(weight), whole(marks))) ELSE x
      exclamations == CountChar(text, "!")
      questions == CountChar(text, "?")
  IN  [neutral |-> Number("0.1"),
       happy |-> whole(hits("happy")),
       sad |-> whole(hits("sad")),
       surprised |-> boost(whole(hits("surprised")), exclamations, "0.2"),
       angry |-> whole(hits("angry")),
       thinking |-> boost(whole(hits("thinking")), questions, "0.3"),
       excited |-> boost(whole(hits("excited")), exclamations, "0.3"),
       confused |-> boost(whole(hits("confused")), questions, "0.2")]

\* the scan that takes the first positive score
RECURSIVE MaxScanFirstPositive(_, _, _, _)
MaxScanFirstPositive(scores, i, maxEmotion, maxScore) ==
  IF i > Len(EmotionOrder) THEN maxEmotion
  ELSE IF IsZero(maxScore.bits) /\ ~IsZero(scores[EmotionOrder[i]].bits)
       THEN MaxScanFirstPositive(scores, i + 1, EmotionOrder[i], scores[EmotionOrder[i]])
       ELSE MaxScanFirstPositive(scores, i + 1, maxEmotion, maxScore)

\* for (const [emotion, score] of Object.entries(scores)) if (score > maxScore)
RECURSIVE MaxScan(_, _, _, _)
MaxScan(scores, i, maxEmotion, maxScore) ==
  IF i > Len(EmotionOrder) THEN maxEmotion
  ELSE IF BitsLess(maxScore.bits, scores[EmotionOrder[i]].bits)
       THEN MaxScan(scores, i + 1, EmotionOrder[i], scores[EmotionOrder[i]])
       ELSE MaxScan(scores, i + 1, maxEmotion, maxScore)

\* intensity is the fraction num / IntensityDen: maxScore / 3, with the exact
\* value of maxScore in tenths
IntensityDen == 30

analyzeEmotion(text) ==
  LET maxEmotion == MaxScan(EmotionValues(text), 1, "neutral", Number("0"))
      maxScore == EmotionScores(text)[maxEmotion]
  IN  [emotion |-> maxEmotion,
       intensity |-> IF maxScore < IntensityDen THEN maxScore ELSE IntensityDen]

\* ------------------------------------------------------------------------
\* interpolatePose (sign-poses.ts)
\* ------------------------------------------------------------------------
Finger(mcpCurl, spread, pipCurl, dipCurl) ==
  [mcp |-> [curl |-> mcpCurl, spread |-> spread], pip |-> [curl |-> pipCurl],
   dip |-> [curl |-> dipCurl]]

curled(spread) == Finger(Number("1.5"), spread, Number("1.5"), Number("1.2"))

extended(spread) == Finger(Number("0"), spread, Number("0"), Number("0"))

bent(spread) == Finger(Number("1.2"), spread, Number("0.6"), Number("0.4"))

thumbSide == Finger(Number("0.2"), Number("0.5"), Number("0.1"), Number("0.1"))

thumbTucked ==
  Finger(Number("1"), Minus(Number("0.2")), Number("0.8"), Number("0.6"))

thumbOut == Finger(Number("0"), Number("0.8"), Number("0"), Number("0"))

\* the numbers of REST_POSE
RestPoseValue ==
  [thumb |-> Finger(Number("0.3"), Number("0.4"), Number("0.2"), Number("0.1")),
   index |-> Finger(Number("0.2"), Number("0.05"), Number("0.15"), Number("0.1")),
   middle |-> Finger(Number("0.2"), Number("0"), Number("0.15"), Number("0.1")),
   ring |-> Finger(Number("0.25"), Minus(Number("0.05")), Number("0.2"),
                   Number("0.15")),
   pinky |-> Finger(Number("0.3"), Minus(Number("0.1")), Number("0.25"),
                    Number("0.2")),
   wrist |-> [pitch |-> Number("0"), yaw |-> Number("0"), roll |-> Number("0")]]

\* the numbers of the ASL letter poses a, b, e, g, l and w
LetterPoseValues ==
  [a |-> [thumb |-> thumbSide, index |-> curled(Number("0")),
          middle |-> curled(Number("0")), ring |-> curled(Number("0")),
          pinky |-> curled(Number("0"))],
   b |-> [thumb |-> thumbTucked, index |-> extended(Number("0")),
          middle |-> extended(Number("0")), ring |-> extended(Number("0")),
          pinky |-> extended(Number("0"))],
   e |-> [thumb |-> thumbTucked, index |-> bent(Number("0")),
          middle |-> bent(Number("0")), ring |-> bent(Number("0")),
          pinky |-> bent(Number("0"))],
   g |-> [thumb |-> thumbOut, index |-> extended(Number("0")),
          middle |-> curled(Number("0")), ring |-> curled(Number("0")),
          pinky |-> curled(Number("0")),
          wrist |-> [pitch |-> Number("0"), yaw |-> Minus(Number("1.2")),
                     roll |-> Number("0")]],
   l |-> [thumb |-> thumbOut, index |-> extended(Number("0")),
          middle |-> curled(Number("0")), ring |-> curled(Number("0")),
          pinky |-> curled(Number("0"))],
   w |-> [thumb |-> thumbTucked, index |-> extended(Number("0.1")),
          middle |-> extended(Number("0")),
          ring |-> extended(Minus(Number("0.1"))),
          pinky |-> curled(Number("0"))]]

\* const lerp = (a, b) => a + (b - a) * t
lerp(a, b, t) == FAdd(a, FMul(FSub(b, a), t))

interpolateFinger(fA, fB, t) ==
  [mcp |-> [curl |-> lerp(fA.mcp.curl, fB.mcp.curl, t),
            spread |-> lerp(fA.mcp.spread, fB.mcp.spread, t)],
   pip |-> [curl |-> lerp(fA.pip.curl, fB.pip.curl, t)],
   dip |-> [curl |-> lerp(fA.dip.curl, fB.dip.curl, t)]]

\* pose.wrist?.[field] ?? 0
WristOr0(pose, field) ==
  IF "wrist" \in DOMAIN pose THEN pose.wrist[field] ELSE Number("0")

interpolatePose(poseA, poseB, t) ==
  [thumb |-> interpolateFinger(poseA.thumb, poseB.thumb, t),
   index |-> interpolateFinger(poseA.index, poseB.index, t),
   middle |-> interpolateFinger(poseA.middle, poseB.middle, t),
   ring |-> interpolateFinger(poseA.ring, poseB.ring, t),
   pinky |-> interpolateFinger(poseA.pinky, poseB.pinky, t),
   wrist |-> [pitch |-> lerp(WristOr0(poseA, "pitch"), WristOr0(poseB, "pitch"), t),
              yaw |-> lerp(WristOr0(poseA, "yaw"), WristOr0(poseB, "yaw"), t),
              roll |-> lerp(WristOr0(poseA, "roll"), WristOr0(poseB, "roll"), t)]]

\* ------------------------------------------------------------------------
\* Interpolation of visemes and expressions (lip-sync-engine.ts,
\* avatar-model.tsx)
\* ------------------------------------------------------------------------
\* the visemes rest, mbp, aa and oh of VISEMES
VISEMES ==
  [rest |-> [name |-> "Rest", mouthOpen |-> Number("0"),
           mouthWidth |-> Number("1"), lipRound |-> Number("0"),
           tongueOut |-> Number("0"), jawOpen |-> Number("0"),
           upperLipRaise |-> Number("0")],
   mbp |-> [name |-> "M/B/P", mouthOpen |-> Number("0"),
           mouthWidth |-> Number("0.9"), lipRound |-> Number("0"),
           tongueOut |-> Number("0"), jawOpen |-> Number("0"),
           upperLipRaise |-> Number("0")],
   aa |-> [name |-> "AA (father)", mouthOpen |-> Number("0.7"),
           mouthWidth |-> Number("1.1"), lipRound |-> Number("0"),
           tongueOut |-> Number("0"), jawOpen |-> Number("0.6"),
           upperLipRaise |-> Number("0")],
   oh |-> [name |-> "OH (go)", mouthOpen |-> Number("0.45"),
           mouthWidth |-> Number("0.7"), lipRound |-> Number("0.8"),
           tongueOut |-> Number("0"), jawOpen |-> Number("0.35"),
           upperLipRaise |-> Number("0")]]

NEUTRAL_EXPRESSION ==
  [emotion |-> "neutral", intensity |-> Number("0"),
   eyeOpenLeft |-> Number("1"), eyeOpenRight |-> Number("1"),
   eyeLookX |-> Number("0"), eyeLookY |-> Number("0"),
   pupilDilation |-> Number("1"), browLeftHeight |-> Number("0"),
   browRightHeight |-> Number("0"), browLeftAngle |-> Number("0"),
   browRightAngle |-> Number("0"), mouthSmile |-> Number("0"),
   mouthOpen |-> Number("0"), mouthWidth |-> Number("1"),
   jawOpen |-> Number("0"), cheekPuff |-> Number("0"),
   noseWrinkle |-> Number("0"), blushIntensity |-> Number("0")]

\* the presets happy and sad of EXPRESSIONS at full intensity
EXPRESSIONS ==
  [neutral |-> NEUTRAL_EXPRESSION,
   happy |-> [NEUTRAL_EXPRESSION EXCEPT
             !.emotion = "happy", !.intensity = Number("1"),
             !.eyeOpenLeft = Number("0.85"), !.eyeOpenRight = Number("0.85"),
             !.browLeftHeight = Number("0.3"),
             !.browRightHeight = Number("0.3"), !.mouthSmile = Number("0.8"),
             !.mouthWidth = Number("1.2"), !.cheekPuff = Number("0.2"),
             !.blushIntensity = Number("0.15")],
   sad |-> [NEUTRAL_EXPRESSION EXCEPT
             !.emotion = "sad", !.intensity = Number("1"),
             !.eyeOpenLeft = Number("0.7"), !.eyeOpenRight = Number("0.7"),
             !.eyeLookY = Minus(Number("0.3")),
             !.browLeftHeight = Minus(Number("0.4")),
             !.browRightHeight = Minus(Number("0.4")),
             !.browLeftAngle = Number("0.5"),
             !.browRightAngle = Number("0.5"),
             !.mouthSmile = Minus(Number("0.6")),
             !.mouthWidth = Number("0.85")]]

\* lerpViseme whose name snaps already at t = 0.5
lerpVisemeSnapAtHalf(a, b, t) ==
  [name |-> IF ~t.neg /\ ~BitsLess(t.bits, Number("0.5").bits)
            THEN b.name ELSE a.name,
   mouthOpen |-> lerp(a.mouthOpen, b.mouthOpen, t),
   mouthWidth |-> lerp(a.mouthWidth, b.mouthWidth, t),
   lipRound |-> lerp(a.lipRound, b.lipRound, t),
   tongueOut |-> lerp(a.tongueOut, b.tongueOut, t),
   jawOpen |-> lerp(a.jawOpen, b.jawOpen, t),
   upperLipRaise |-> lerp(a.upperLipRaise, b.upperLipRaise, t)]

lerpViseme(a, b, t) ==
  [name |-> IF ~t.neg /\ BitsLess(Number("0.5").bits, t.bits)
            THEN b.name ELSE a.name,
   mouthOpen |-> lerp(a.mouthOpen, b.mouthOpen, t),
   mouthWidth |-> lerp(a.mouthWidth, b.mouthWidth, t),
   lipRound |-> lerp(a.lipRound, b.lipRound, t),
   tongueOut |-> lerp(a.tongueOut, b.tongueOut, t),
   jawOpen |-> lerp(a.jawOpen, b.jawOpen, t),
   upperLipRaise |-> lerp(a.upperLipRaise, b.upperLipRaise, t)]

lerpExpression(a, b, t) ==
  [emotion |-> IF ~t.neg /\ BitsLess(Number("0.5").bits, t.bits)
               THEN b.emotion ELSE a.emotion,
   intensity |-> lerp(a.intensity, b.intensity, t),
   eyeOpenLeft |-> lerp(a.eyeOpenLeft, b.eyeOpenLeft, t),
   eyeOpenRight |-> lerp(a.eyeOpenRight, b.eyeOpenRight, t),
   eyeLookX |-> lerp(a.eyeLookX, b.eyeLookX, t),
   eyeLookY |-> lerp(a.eyeLookY, b.eyeLookY, t),
   pupilDilation |-> lerp(a.pupilDilation, b.pupilDilation, t),
   browLeftHeight |-> lerp(a.browLeftHeight, b.browLeftHeight, t),
   browRightHeight |-> lerp(a.browRightHeight, b.browRightHeight, t),
   browLeftAngle |-> lerp(a.browLeftAngle, b.browLeftAngle, t),
   browRightAngle |-> lerp(a.browRightAngle, b.browRightAngle, t),
   mouthSmile |-> lerp(a.mouthSmile, b.mouthSmile, t),
   mouthOpen |-> lerp(a.mouthOpen, b.mouthOpen, t),
   mouthWidth |-> lerp(a.mouthWidth, b.mouthWidth, t),
   jawOpen |-> lerp(a.jawOpen, b.jawOpen, t),
   cheekPuff |-> lerp(a.cheekPuff, b.cheekPuff, t),
   noseWrinkle |-> lerp(a.noseWrinkle, b.noseWrinkle, t),
   blushIntensity |-> lerp(a.blushIntensity, b.blushIntensity, t)]

\* ------------------------------------------------------------------------
\* Playback timeline (sign-language-3d.tsx, SignLanguage3D)
\* ------------------------------------------------------------------------
VARIABLES
  text,               \* prop text
  languageMode,       \* "asl" | "isl"
  signMode,           \* "signs" | "spell"
  playing,
  currentItemIndex,
  currentKeyframe,
  currentLetterIndex,
  currentPose,
  speed,              \* in halves: 1, 2, 3, 4 for 0.5x, 1x, 1.5x, 2x
  currentViseme,
  headTilt,           \* k stands for x = sin(k) * 0.05, y = z = 0
  lipSyncFrames,
  lipSyncStartTime,
  timerRef,           \* handle held by timerRef.current, 0 for null
  lipSyncIntervalRef, \* handle held by lipSyncIntervalRef.current, 0 for null
  timeouts,           \* pending setTimeout callbacks, with their closures
  intervals,          \* active setInterval callbacks, with their closures
  now,                \* Date.now()
  advanceCount,       \* advancement callbacks run since startPlaying, while no
                      \* other handler has run; -1 once another handler has
  args,               \* arguments of a direct call of an exported function
  result              \* what that call returned

\* the state of the component
timeline ==
  <<text, languageMode, signMode, playing, currentItemIndex, currentKeyframe,
    currentLetterIndex, currentPose, speed, currentViseme, headTilt,
    lipSyncFrames, lipSyncStartTime, timerRef, lipSyncIntervalRef, timeouts,
    intervals, now, advanceCount>>

vars == <<timeline, args, result>>

\* no exported function has been called directly
NoCall == [fn |-> "none"]

\* texts the parent page passes as the text prop
TextEmpty == <<>>

TextHello == <<"H","e","l","l","o","!">>

TextHiLove == <<"h","i"," ","l","o","v","e">>

TextPleaseGo == <<"p","l","e","a","s","e"," ","g","o">>

Texts == {TextEmpty, TextHello, TextHiLove, TextPleaseGo}

LANGUAGE_MODES == {"asl", "isl"}

SIGN_MODES == {"signs", "spell"}

SPEEDS == {1, 2, 3, 4}

\* Date.now() when the component mounts
MountTime == 100000

LipSyncPeriod == 50

\* text.replace(/[^a-zA-Z\s]/g, '').toLowerCase().split('').filter(Boolean)
SpellChars(t) ==
  LowerSeq(SelectSeq(t, LAMBDA c :
     c \in LowerLetters \/ c \in UpperLetters \/ IsSpace(c)))

NoItem == [type |-> "undefined"]

\* array[index] with a 0-based index; NoItem stands for undefined
ItemAt(items, idx) == IF idx + 1 \in 1..Len(items) THEN items[idx + 1] ELSE NoItem

CurrentItem(t, lm, sm, idx) ==
  IF sm = "signs" THEN ItemAt(textToSignGloss(t, lm), idx) ELSE NoItem

\* "" stands for both '' and undefined: both are falsy
CurrentChar(t, sm, li) ==
  IF sm = "spell" /\ li + 1 \in 1..Len(SpellChars(t)) THEN SpellChars(t)[li + 1] ELSE ""

totalItems(t, lm, sm) ==
  IF sm = "signs" THEN Len(textToSignGloss(t, lm)) ELSE Len(SpellChars(t))

currentIdx == IF signMode = "signs" THEN currentItemIndex ELSE currentLetterIndex

\* effect on [currentItem, currentChar, signMode, speed]
LipSyncFramesEffect(t, lm, sm, idx, li, sp, frames) ==
  LET item == CurrentItem(t, lm, sm, idx)
      ch == CurrentChar(t, sm, li)
  IN  IF item.type = "word" THEN generateLipSync(item.value, 60 * sp)
      ELSE IF sm = "spell" /\ ch # "" THEN generateLipSync(<<ch>>, 60)
      ELSE frames

\* effect on [signMode, currentItemIndex, currentKeyframe, currentLetterIndex,
\* currentChar, letterPoses]: the pose it sets
PoseEffect(t, lm, sm, idx, kf, li, pose) ==
  LET item == CurrentItem(t, lm, sm, idx)
      ch == CurrentChar(t, sm, li)
  IN  IF sm = "signs" /\ item # NoItem
      THEN IF item.type = "word"
           THEN (IF kf + 1 \in 1..Len(item.animation.poses)
                 THEN item.animation.poses[kf + 1] ELSE item.animation.poses[1])
           ELSE LET i == IF li < Len(item.letterPoses) - 1
                         THEN li ELSE Len(item.letterPoses) - 1
                IN  IF i + 1 \in 1..Len(item.letterPoses)
                    THEN item.letterPoses[i + 1] ELSE REST_POSE
      ELSE IF sm = "spell" /\ ch # ""
      THEN (IF ch \in DOMAIN getLetterPoses(lm) THEN getLetterPoses(lm)[ch] ELSE REST_POSE)
      ELSE pose

\* the same effect: the head tilt it sets
TiltEffect(t, lm, sm, idx, kf, tilt) ==
  LET item == CurrentItem(t, lm, sm, idx)
  IN  IF sm = "signs" /\ item # NoItem /\ item.type = "word"
      THEN (IF item.animation.type = "motion" THEN kf ELSE 0)
      ELSE tilt

PoseDeps(t, lm, sm, idx, kf, li) == <<sm, idx, kf, li, CurrentChar(t, sm, li), lm>>

\* Commit of the state a handler has set, followed by the effects of the
\* render it causes.  pose and tilt are the values the handler left.
Render(t, lm, sm, idx, kf, li, sp, pose, tilt) ==
  LET changed == PoseDeps(t, lm, sm, idx, kf, li) #
                   PoseDeps(text, languageMode, signMode, currentItemIndex,
                            currentKeyframe, currentLetterIndex)
  IN  /\ text' = t
      /\ languageMode' = lm
      /\ signMode' = sm
      /\ currentItemIndex' = idx
      /\ currentKeyframe' = kf
      /\ currentLetterIndex' = li
      /\ speed' = sp
      /\ currentPose' = IF changed THEN PoseEffect(t, lm, sm, idx, kf, li, pose) ELSE pose
      /\ headTilt' = IF changed THEN TiltEffect(t, lm, sm, idx, kf, tilt) ELSE tilt
      /\ lipSyncFrames' = LipSyncFramesEffect(t, lm, sm, idx, li, sp, lipSyncFrames)
      /\ UNCHANGED <<args, result>>

\* the state a callback created in the current render closes over
Closure ==
  [text |-> text, languageMode |-> languageMode, signMode |-> signMode,
   currentItemIndex |-> currentItemIndex, currentKeyframe |-> currentKeyframe,
   currentLetterIndex |-> currentLetterIndex, speed |-> speed]

\* a handle no pending callback and no ref holds
FreshId(used) == CHOOSE n \in 1..(Cardinality(used) + 1) : n \notin used

\* setTimeout(advancePlayback, base / c.speed) by a callback closing over c
SetTimeout(pending, c, base) ==
  LET id == FreshId({p.id : p \in pending} \cup {timerRef})
  IN  [id |-> id,
       set |-> pending \cup {[id |-> id, c |-> c, base |-> base, div |-> c.speed]}]

\* clearTimer without the clearTimeout
clearTimerKeeps(pending) == pending

\* clearTimer: the pending callbacks it leaves
clearTimer(pending) == {p \in pending : p.id # timerRef}

\* stopLipSync without the clearInterval
stopLipSyncKeeps(active) == active

\* stopLipSync: the active intervals it leaves
stopLipSync(active) == {p \in active : p.id # lipSyncIntervalRef}

\* durations?.[k] || fallback, k 0-based
DurationOr(anim, k, fallback) ==
  IF k + 1 \in 1..Len(anim.durations) /\ anim.durations[k + 1] # 0
  THEN anim.durations[k + 1] ELSE fallback

InitTimeline(T) ==
  /\ text \in T
  /\ languageMode = "asl"
  /\ signMode = "signs"
  /\ playing \in BOOLEAN
  /\ currentItemIndex = 0
  /\ currentKeyframe = 0
  /\ currentLetterIndex = 0
  /\ speed = 2
  /\ currentViseme = "rest"
  /\ currentPose = PoseEffect(text, "asl", "signs", 0, 0, 0, REST_POSE)
  /\ headTilt = 0
  /\ lipSyncFrames = LipSyncFramesEffect(text, "asl", "signs", 0, 0, 2, NoFrames)
  /\ lipSyncStartTime = 0
  /\ timerRef = 0
  /\ lipSyncIntervalRef = 0
  /\ timeouts = {}
  /\ intervals = {}
  /\ now = MountTime
  /\ advanceCount = 0

InitOn(T) ==
  /\ InitTimeline(T)
  /\ args = NoCall
  /\ result = NoCall

Init == InitOn(Texts)

\* stopPlaying: setPlaying(false); clearTimer(); stopLipSync()
StopState ==
  /\ playing' = FALSE
  /\ timeouts' = clearTimer(timeouts)
  /\ timerRef' = 0
  /\ intervals' = stopLipSync(intervals)
  /\ lipSyncIntervalRef' = 0
  /\ currentViseme' = "rest"

\* Pause button, rendered while playing
stopPlaying ==
  /\ playing
  /\ StopState
  /\ Render(text, languageMode, signMode, currentItemIndex, currentKeyframe,
            currentLetterIndex, speed, currentPose, headTilt)
  /\ advanceCount' = -1
  /\ UNCHANGED <<lipSyncStartTime, now>>

\* the startPlaying handler
StartPlayingHandler ==
  /\ playing' = TRUE
  /\ LET id == FreshId({p.id : p \in intervals} \cup {lipSyncIntervalRef})
     IN  /\ intervals' = stopLipSync(intervals) \cup
                           {[id |-> id, frames |-> lipSyncFrames,
                             start |-> lipSyncStartTime]}
         /\ lipSyncIntervalRef' = id
  /\ lipSyncStartTime' = now
  /\ LET item == ItemAt(textToSignGloss(text, languageMode), currentItemIndex)
         base == IF item.type = "word" THEN DurationOr(item.animation, 0, 600) ELSE 600
         t == SetTimeout(timeouts, Closure, base)
     IN  /\ timeouts' = t.set
         /\ timerRef' = t.id
  /\ Render(text, languageMode, signMode, currentItemIndex, currentKeyframe,
            currentLetterIndex, speed, currentPose, headTilt)
  /\ advanceCount' = 0
  /\ UNCHANGED <<currentViseme, now>>

\* Start / Resume button, rendered while not playing, disabled without items
startPlaying ==
  /\ ~playing
  /\ totalItems(text, languageMode, signMode) # 0
  /\ StartPlayingHandler

\* the handler called while nothing is to be played: the button is disabled
\* then, so the call comes from outside the button
startPlayingNoItems ==
  /\ ~playing
  /\ totalItems(text, languageMode, signMode) = 0
  /\ StartPlayingHandler

\* what one run of advancePlayback decides, from the state c it closes over:
\* the state updates (applied to the current state) and the next delay
Step(kind, dIdx, kf, li, base, restart) ==
  [kind |-> kind, dIdx |-> dIdx, kf |-> kf, li |-> li, base |-> base,
   restart |-> restart]

\* advancePlayback that waits for an item instead of stopping without one
AdvanceDecisionRetrying(c) ==
  LET glossItems == textToSignGloss(c.text, c.languageMode)
      item == ItemAt(glossItems, c.currentItemIndex)
      keepKf == currentKeyframe
      keepLi == currentLetterIndex
  IN  IF c.signMode = "signs"
      THEN IF item = NoItem THEN Step("next", 0, keepKf, keepLi, 600, FALSE)
           ELSE IF item.type = "word"
           THEN LET maxKf == Len(item.animation.poses) - 1
                IN  IF c.currentKeyframe < maxKf
                    THEN Step("next", 0, currentKeyframe + 1, keepLi,
                              DurationOr(item.animation, c.currentKeyframe + 1, 500), FALSE)
                    ELSE IF item.animation.loop
                    THEN Step("next", 0, 0, keepLi, 400, FALSE)
                    ELSE IF c.currentItemIndex < Len(glossItems) - 1
                    THEN Step("next", 1, 0, 0, 600, TRUE)
                    ELSE Step("stop", 0, keepKf, keepLi, 0, FALSE)
           ELSE IF c.currentLetterIndex < Len(item.letterPoses) - 1
                THEN Step("next", 0, keepKf, currentLetterIndex + 1, 700, FALSE)
                ELSE IF c.currentItemIndex < Len(glossItems) - 1
                THEN Step("next", 1, 0, 0, 800, FALSE)
                ELSE Step("stop", 0, keepKf, keepLi, 0, FALSE)
      ELSE IF c.currentLetterIndex < Len(SpellChars(c.text)) - 1
           THEN Step("next", 0, keepKf, currentLetterIndex + 1, 700, FALSE)
           ELSE Step("stop", 0, keepKf, keepLi, 0, FALSE)

AdvanceDecision(c) ==
  LET glossItems == textToSignGloss(c.text, c.languageMode)
      item == ItemAt(glossItems, c.currentItemIndex)
      keepKf == currentKeyframe
      keepLi == currentLetterIndex
  IN  IF c.signMode = "signs"
      THEN IF item = NoItem THEN Step("stop", 0, keepKf, keepLi, 0, FALSE)
           ELSE IF item.type = "word"
           THEN LET maxKf == Len(item.animation.poses) - 1
                IN  IF c.currentKeyframe < maxKf
                    THEN Step("next", 0, currentKeyframe + 1, keepLi,
                              DurationOr(item.animation, c.currentKeyframe + 1, 500), FALSE)
                    ELSE IF item.animation.loop
                    THEN Step("next", 0, 0, keepLi, 400, FALSE)
                    ELSE IF c.currentItemIndex < Len(glossItems) - 1
                    THEN Step("next", 1, 0, 0, 600, TRUE)
                    ELSE Step("stop", 0, keepKf, keepLi, 0, FALSE)
           ELSE IF c.currentLetterIndex < Len(item.letterPoses) - 1
                THEN Step("next", 0, keepKf, currentLetterIndex + 1, 700, FALSE)
                ELSE IF c.currentItemIndex < Len(glossItems) - 1
                THEN Step("next", 1, 0, 0, 800, FALSE)
                ELSE Step("stop", 0, keepKf, keepLi, 0, FALSE)
      ELSE IF c.currentLetterIndex < Len(SpellChars(c.text)) - 1
           THEN Step("next", 0, keepKf, currentLetterIndex + 1, 700, FALSE)
           ELSE Step("stop", 0, keepKf, keepLi, 0, FALSE)

\* the advancement timer fires
advancePlayback ==
  \E p \in timeouts :
    LET d == AdvanceDecision(p.c)
        t == SetTimeout(timeouts \ {p}, p.c, d.base)
    IN  /\ advanceCount < MaxAdvance
        /\ currentItemIndex + d.dIdx <= MaxPos
        /\ d.kf <= MaxPos
        /\ d.li <= MaxPos
        /\ IF d.kind = "stop"
           THEN /\ playing' = FALSE
                /\ timeouts' = clearTimer(timeouts \ {p})
                /\ timerRef' = 0
                /\ intervals' = stopLipSync(intervals)
                /\ lipSyncIntervalRef' = 0
                /\ currentViseme' = "rest"
                /\ UNCHANGED lipSyncStartTime
           ELSE /\ timeouts' = t.set
                /\ timerRef' = t.id
                /\ lipSyncStartTime' = IF d.restart THEN now ELSE lipSyncStartTime
                /\ UNCHANGED <<playing, intervals, lipSyncIntervalRef, currentViseme>>
        /\ Render(text, languageMode, signMode, currentItemIndex + d.dIdx, d.kf, d.li,
                  speed, currentPose, headTilt)
        /\ advanceCount' = IF advanceCount < 0 THEN -1 ELSE advanceCount + 1
        /\ UNCHANGED now

\* the lip-sync interval fires
lipSyncTick ==
  \E p \in intervals :
    /\ currentViseme' = getVisemeAtTime(p.frames, now - p.start)
    /\ UNCHANGED <<text, languageMode, signMode, playing, currentItemIndex,
                   currentKeyframe, currentLetterIndex, currentPose, speed, headTilt,
                   lipSyncFrames, lipSyncStartTime, timerRef, lipSyncIntervalRef,
                   timeouts, intervals, now, advanceCount, args, result>>

\* Reset button
reset ==
  /\ StopState
  /\ Render(text, languageMode, signMode, 0, 0, 0, speed, REST_POSE, 0)
  /\ advanceCount' = -1
  /\ UNCHANGED <<lipSyncStartTime, now>>

\* language toggle: setLanguageMode(lang.id); reset()
setLanguageMode ==
  \E lm \in LANGUAGE_MODES :
    /\ StopState
    /\ Render(text, lm, signMode, 0, 0, 0, speed, REST_POSE, 0)
    /\ advanceCount' = -1
    /\ UNCHANGED <<lipSyncStartTime, now>>

\* Signs / Spell buttons: setSignMode(mode); reset()
setSignMode ==
  \E sm \in SIGN_MODES :
    /\ StopState
    /\ Render(text, languageMode, sm, 0, 0, 0, speed, REST_POSE, 0)
    /\ advanceCount' = -1
    /\ UNCHANGED <<lipSyncStartTime, now>>

Untimed == <<playing, currentViseme, lipSyncStartTime, timerRef, lipSyncIntervalRef,
             timeouts, intervals, now>>

\* a step forward that pauses the playback
stepForwardPausing ==
  /\ currentIdx < totalItems(text, languageMode, signMode) - 1
  /\ StopState
  /\ IF signMode = "signs"
     THEN Render(text, languageMode, signMode, currentItemIndex + 1, 0, 0, speed,
                 currentPose, headTilt)
     ELSE Render(text, languageMode, signMode, currentItemIndex, currentKeyframe,
                 currentLetterIndex + 1, speed, currentPose, headTilt)
  /\ advanceCount' = -1
  /\ UNCHANGED <<lipSyncStartTime, now>>

\* ChevronRight button
stepForward ==
  /\ currentIdx < totalItems(text, languageMode, signMode) - 1
  /\ IF signMode = "signs"
     THEN Render(text, languageMode, signMode, currentItemIndex + 1, 0, 0, speed,
                 currentPose, headTilt)
     ELSE Render(text, languageMode, signMode, currentItemIndex, currentKeyframe,
                 currentLetterIndex + 1, speed, currentPose, headTilt)
  /\ advanceCount' = -1
  /\ UNCHANGED Untimed

\* ChevronLeft button
stepBackward ==
  /\ currentIdx > 0
  /\ IF signMode = "signs"
     THEN Render(text, languageMode, signMode, currentItemIndex - 1, 0, 0, speed,
                 currentPose, headTilt)
     ELSE Render(text, languageMode, signMode, currentItemIndex, currentKeyframe,
                 currentLetterIndex - 1, speed, currentPose, headTilt)
  /\ advanceCount' = -1
  /\ UNCHANGED Untimed

\* click on a chip of the sign sequence
jumpTo ==
  /\ signMode = "signs"
  /\ \E idx \in 0..(Len(textToSignGloss(text, languageMode)) - 1) :
       Render(text, languageMode, signMode, idx, 0, 0, speed, currentPose, headTilt)
  /\ advanceCount' = -1
  /\ UNCHANGED Untimed

\* speed buttons
setSpeed ==
  /\ \E s \in SPEEDS :
       Render(text, languageMode, signMode, currentItemIndex, currentKeyframe,
              currentLetterIndex, s, currentPose, headTilt)
  /\ advanceCount' = -1
  /\ UNCHANGED Untimed

\* the parent renders the component with another text
changeTextIn(T) ==
  /\ \E t \in T \ {text} :
       Render(t, languageMode, signMode, currentItemIndex, currentKeyframe,
              currentLetterIndex, speed, currentPose, headTilt)
  /\ advanceCount' = -1
  /\ UNCHANGED Untimed

\* time passes
timePasses ==
  /\ now < MountTime + MaxTicks * LipSyncPeriod
  /\ now' = now + LipSyncPeriod
  /\ UNCHANGED <<text, languageMode, signMode, playing, currentItemIndex,
                 currentKeyframe, currentLetterIndex, currentPose, speed,
                 currentViseme, headTilt, lipSyncFrames, lipSyncStartTime, timerRef,
                 lipSyncIntervalRef, timeouts, intervals, advanceCount, args, result>>

\* the timeline under its buttons and timers; text and speed stay as mounted
Next ==
  \/ startPlaying
  \/ stopPlaying
  \/ advancePlayback
  \/ lipSyncTick
  \/ reset
  \/ setLanguageMode
  \/ setSignMode
  \/ stepForward
  \/ stepBackward
  \/ jumpTo

Spec == Init /\ [][Next]_vars

\* the same with the speed buttons, on one text
InitSpeed == InitOn({TextHello})

NextSpeed ==
  \/ startPlaying
  \/ stopPlaying
  \/ advancePlayback
  \/ lipSyncTick
  \/ reset
  \/ setLanguageMode
  \/ setSignMode
  \/ stepForward
  \/ stepBackward
  \/ jumpTo
  \/ setSpeed

SpecSpeed == InitSpeed /\ [][NextSpeed]_vars

\* the parent changes the text during playback
TextsChanged == {TextHello, TextHiLove}

\* mounted as the content page does, with isPlaying = false
InitText == InitOn(TextsChanged) /\ ~playing

changeText == changeTextIn(TextsChanged)

NextText ==
  \/ startPlaying
  \/ stopPlaying
  \/ advancePlayback
  \/ lipSyncTick
  \/ reset
  \/ setLanguageMode
  \/ stepForward
  \/ changeText

SpecText == InitText /\ [][NextText]_vars

\* playback against the clock
InitClock == InitOn({TextHiLove, TextPleaseGo}) /\ ~playing

NextClock ==
  \/ startPlaying
  \/ stopPlaying
  \/ advancePlayback
  \/ lipSyncTick
  \/ stepForward
  \/ stepBackward
  \/ timePasses

SpecClock == InitClock /\ [][NextClock]_vars

\* texts without a letter
TextsNoLetter == {TextEmpty, <<" ", " ">>, <<"!", "?">>, <<"4", "2">>}

\* the component on a text without a letter
InitEmpty == InitOn(TextsNoLetter) /\ ~playing

NextEmpty ==
  \/ startPlaying
  \/ startPlayingNoItems
  \/ stopPlaying
  \/ advancePlayback
  \/ lipSyncTick
  \/ reset
  \/ setLanguageMode
  \/ setSignMode
  \/ setSpeed

SpecEmpty == InitEmpty /\ [][NextEmpty]_vars

\* ------------------------------------------------------------------------
\* Direct calls of the exported functions (index.ts)
\* ------------------------------------------------------------------------
\* the sequences over S of length at most n
SeqsUpTo(S, n) == UNION {[1..k -> S] : k \in 0..n}

\* the words joined by single spaces
RECURSIVE JoinWords(_)
JoinWords(ws) ==
  IF ws = <<>> THEN <<>>
  ELSE IF Len(ws) = 1 THEN ws[1]
  ELSE ws[1] \o <<" ">> \o JoinWords(Tail(ws))

\* the component stays as mounted on an empty text while a function is called
InitCall(calls) ==
  /\ InitTimeline({TextEmpty})
  /\ ~playing
  /\ args \in calls
  /\ result = NoCall

GlossWords ==
  {<<"t","h","a","n","k">>, <<"y","o","u">>, <<"g","o">>, <<"v","e","r","y">>,
   <<"n","o">>, Inherited.key}

GlossChars == {"n", "O", " ", "!", "4", KelvinSign}

TextThankYouVeryMuch ==
  JoinWords(<<<<"t","h","a","n","k">>, <<"y","o","u">>, <<"v","e","r","y">>,
              <<"m","u","c","h">>>>)

GlossTexts ==
  {JoinWords(ws) : ws \in SeqsUpTo(GlossWords, MaxWords)}
    \cup SeqsUpTo(GlossChars, MaxChars)
    \cup {TextThankYouVeryMuch}

GlossCalls ==
  {[fn |-> "textToSignGloss", text |-> t, mode |-> m] :
     t \in GlossTexts, m \in LANGUAGE_MODES}

InitGloss == InitCall(GlossCalls)

callTextToSignGloss ==
  /\ args.fn = "textToSignGloss"
  /\ result = NoCall
  /\ result' = [fn |-> "textToSignGloss",
                value |-> textToSignGloss(args.text, args.mode)]
  /\ UNCHANGED <<timeline, args>>

NextGloss == callTextToSignGloss

SpecGloss == InitGloss /\ [][NextGloss]_vars

EmotionTokens ==
  {<<"h","a","p","p","y">>, <<"s","a","d">>, <<"a","m","a","z","i","n","g">>,
   <<"w","h","a","t">>, <<"h","u","h">>, <<"!">>, <<"?">>, <<"W","o","w","!">>,
   <<"!","!","!","?","?">>}

EmotionTexts == {JoinWords(ws) : ws \in SeqsUpTo(EmotionTokens, MaxWords)}

EmotionCalls == {[fn |-> "analyzeEmotion", text |-> t] : t \in EmotionTexts}

InitEmotion == InitCall(EmotionCalls)

callAnalyzeEmotion ==
  /\ args.fn = "analyzeEmotion"
  /\ result = NoCall
  /\ result' = [fn |-> "analyzeEmotion", value |-> analyzeEmotion(args.text)]
  /\ UNCHANGED <<timeline, args>>

NextEmotion == callAnalyzeEmotion

SpecEmotion == InitEmotion /\ [][NextEmotion]_vars

LipSyncChars == {"a", "b", " ", "E", "4", "!", CapitalIDotted}

LipSyncTexts == SeqsUpTo(LipSyncChars, MaxChars)

\* words per minute: the component's 60 and the default 150
LipSyncRates == {60, 150}

LipSyncCalls ==
  {[fn |-> "generateLipSync", text |-> t, wordsPerMinute |-> w] :
     t \in LipSyncTexts, w \in LipSyncRates}

\* frame lists written by hand, in any order of time; wpm 1 makes the
\* numerators milliseconds
FrameTimes == {0, 100, 200}

HandFrames ==
  {[wpm |-> 1,
    frames |-> [i \in 1..Len(ts) |->
                  [viseme |-> IF i = 1 THEN "ae" ELSE "mbp",
                   character |-> IF i = 1 THEN "a" ELSE "b",
                   time |-> ts[i], duration |-> 100]]] :
     ts \in SeqsUpTo(FrameTimes, 2)}

SampleTimes == {-1, 0, 99, 160, 259, 260, 420, 10000}

VisemeCalls ==
  {[fn |-> "getVisemeAtTime", frames |-> fl, currentTime |-> t, generated |-> TRUE] :
     fl \in {generateLipSync(x, 60) : x \in LipSyncTexts}, t \in SampleTimes}
    \cup
  {[fn |-> "getVisemeAtTime", frames |-> fl, currentTime |-> t, generated |-> FALSE] :
     fl \in HandFrames, t \in SampleTimes}

InitLipSync == InitCall(LipSyncCalls \cup VisemeCalls)

callGenerateLipSync ==
  /\ args.fn = "generateLipSync"
  /\ result = NoCall
  /\ result' = [fn |-> "generateLipSync",
                value |-> generateLipSync(args.text, args.wordsPerMinute)]
  /\ UNCHANGED <<timeline, args>>

callGetVisemeAtTime ==
  /\ args.fn = "getVisemeAtTime"
  /\ result = NoCall
  /\ result' = [fn |-> "getVisemeAtTime",
                value |-> getVisemeAtTime(args.frames, args.currentTime)]
  /\ UNCHANGED <<timeline, args>>

NextLipSync ==
  \/ callGenerateLipSync
  \/ callGetVisemeAtTime

SpecLipSync == InitLipSync /\ [][NextLipSync]_vars

PoseCalls ==
  LET poses == {RestPoseValue} \cup
               {LetterPoseValues[c] : c \in DOMAIN LetterPoseValues}
  IN  {[fn |-> "interpolatePose", poseA |-> a, poseB |-> b, t |-> t] :
         a \in poses, b \in poses, t \in {Number("0"), Number("1")}}

InitPose == InitCall(PoseCalls)

callInterpolatePose ==
  /\ args.fn = "interpolatePose"
  /\ result = NoCall
  /\ result' = [fn |-> "interpolatePose",
                value |-> interpolatePose(args.poseA, args.poseB, args.t)]
  /\ UNCHANGED <<timeline, args>>

NextPose == callInterpolatePose

SpecPose == InitPose /\ [][NextPose]_vars

InitLerp ==
  InitCall(
    LET factors == {Number("0"), Number("0.25"), Number("0.5"), Number("0.75"),
                    Number("1")}
    IN  {[fn |-> "lerpViseme", a |-> VISEMES[a], b |-> VISEMES[b], t |-> t] :
           a \in DOMAIN VISEMES, b \in DOMAIN VISEMES, t \in factors}
        \cup
        {[fn |-> "lerpExpression", a |-> EXPRESSIONS[a], b |-> EXPRESSIONS[b],
          t |-> t] :
           a \in DOMAIN EXPRESSIONS, b \in DOMAIN EXPRESSIONS, t \in factors})

callLerpViseme ==
  /\ args.fn = "lerpViseme"
  /\ result = NoCall
  /\ result' = [fn |-> "lerpViseme", value |-> lerpViseme(args.a, args.b, args.t)]
  /\ UNCHANGED <<timeline, args>>

callLerpExpression ==
  /\ args.fn = "lerpExpression"
  /\ result = NoCall
  /\ result' = [fn |-> "lerpExpression",
                value |-> lerpExpression(args.a, args.b, args.t)]
  /\ UNCHANGED <<timeline, args>>

NextLerp ==
  \/ callLerpViseme
  \/ callLerpExpression

SpecLerp == InitLerp /\ [][NextLerp]_vars

\* ------------------------------------------------------------------------
\* Properties
\* ------------------------------------------------------------------------

\* C1: an undisturbed playback of a non-empty gloss sequence without looping
\* animations is idle, with no advancement timer and no lip-sync interval
\* pending, once as many advancement callbacks have run as the sequence has
\* keyframes plus letters.
C1_TerminatesWithinSteps ==
  LET glossItems == textToSignGloss(text, languageMode)
      size(item) == IF item.type = "word" THEN Len(item.animation.poses)
                    ELSE Len(item.letterPoses)
      total[i \in 0..Len(glossItems)] ==
        IF i = 0 THEN 0 ELSE total[i - 1] + size(glossItems[i])
      loopFree == \A i \in 1..Len(glossItems) :
                    glossItems[i].type = "word" => ~glossItems[i].animation.loop
  IN  (/\ signMode = "signs"
       /\ glossItems # <<>>
       /\ loopFree
       /\ advanceCount >= total[Len(glossItems)])
      => (~playing /\ timeouts = {} /\ intervals = {})

\* C2: playing "hello" in asl from the start, the keyframe index takes the
\* values 0, 1, 2 and never 3 or more, and after the third advancement
\* callback the timeline is idle.
C2_HelloThreeKeyframes ==
  (/\ text = TextHello
   /\ languageMode = "asl"
   /\ signMode = "signs"
   /\ advanceCount >= 0)
  => (/\ currentKeyframe <= 2
      /\ currentKeyframe <= advanceCount
      /\ advanceCount >= 3 => ~playing)

\* C3: at most one advancement timer is pending, and it is the one whose
\* handle timerRef holds, so that stopping cancels it before the next start.
C3_AtMostOneTimer ==
  /\ Cardinality(timeouts) <= 1
  /\ \A p \in timeouts : p.id = timerRef

\* C3 witness: a resumed playback at another speed with its timer pending
C3_Witness ==
  /\ playing
  /\ Cardinality(timeouts) = 1
  /\ advanceCount = 0
  /\ currentKeyframe > 0
  /\ speed # 2

\* C4: once the playback is stopped, no advancement or lip-sync callback
\* changes the position, the viseme or the playing flag, or schedules a timer.
C4_NoCallbackAfterStop ==
  [][(~playing /\ (advancePlayback \/ lipSyncTick))
       => UNCHANGED <<currentItemIndex, currentKeyframe, currentLetterIndex,
                      currentViseme, playing, timeouts, intervals>>]_vars

\* C4 witness: a playback that had advanced and was stopped: nothing is pending
C4_Witness ==
  /\ ~playing
  /\ lipSyncStartTime # 0
  /\ currentKeyframe > 0
  /\ advanceCount = -1
  /\ timeouts = {}
  /\ intervals = {}

\* C5: reset leaves item 0, keyframe 0, letter 0, the rest pose, the rest
\* viseme, a zero head tilt and an idle timeline without timers.
C5_ResetRestoresRest ==
  [][reset => (/\ currentItemIndex' = 0
               /\ currentKeyframe' = 0
               /\ currentLetterIndex' = 0
               /\ currentPose' = REST_POSE
               /\ currentViseme' = "rest"
               /\ headTilt' = 0
               /\ ~playing'
               /\ timeouts' = {}
               /\ intervals' = {})]_vars

\* C6: a change of the text or of the language mode leaves the position at
\* item 0, keyframe 0, letter 0 of the new gloss sequence, idle, with no
\* advancement pending from the previous one.
C6_TextChangeResets ==
  [][(text' # text \/ languageMode' # languageMode)
       => (/\ currentItemIndex' = 0
           /\ currentKeyframe' = 0
           /\ currentLetterIndex' = 0
           /\ ~playing'
           /\ timeouts' = {})]_vars

\* C7: stepForward, stepBackward and the index jump leave the playing flag,
\* the pending advancement timer and the lip-sync interval as they are.
C7_StepKeepsPlayback ==
  [][(stepForward \/ stepBackward \/ jumpTo)
       => UNCHANGED <<playing, timerRef, timeouts, lipSyncIntervalRef, intervals,
                      currentViseme, lipSyncStartTime, speed, signMode,
                      languageMode, text>>]_vars

\* C7 witness: a step backward taken during playback, the timer still pending
C7_Witness ==
  /\ playing
  /\ advanceCount = -1
  /\ currentItemIndex = 0
  /\ \E p \in timeouts : p.c.currentItemIndex = 1
  /\ intervals # {}

\* C8: a delay is scheduled with the speed multiplier current at that moment.
C8_DelayUsesCurrentSpeed ==
  [][\A p \in timeouts' \ timeouts : p.div = speed']_vars

\* C9: the lip-sync interval is active exactly while playing, and at most one.
C9_LipSyncLockstep ==
  /\ (intervals # {}) <=> playing
  /\ Cardinality(intervals) <= 1

\* C10: when the current gloss item changes, the lip-sync frame list is that
\* of the new item's text (the word, or the current fingerspelled letter),
\* and while playing the lip-sync clock restarts and the sampler reads that
\* list.
C10_LipSyncFollowsItem ==
  [][(currentItemIndex' # currentItemIndex
        /\ CurrentItem(text', languageMode', signMode', currentItemIndex') # NoItem)
       => LET item == CurrentItem(text', languageMode', signMode', currentItemIndex')
              chars == IF item.type = "word" THEN LowerSeq(item.value)
                       ELSE SubSeq(LowerSeq(item.value), currentLetterIndex' + 1,
                                   currentLetterIndex' + 1)
              charsOf(fl) == [i \in 1..Len(fl.frames) |-> fl.frames[i].character]
          IN  /\ charsOf(lipSyncFrames') = chars
              /\ playing' => lipSyncStartTime' = now'
              /\ playing' => \A p \in intervals' : charsOf(p.frames) = chars]_vars

C12_LongestMatchFirst ==
  result # NoCall =>
    LET words == NormalizedWords(args.text)
        tbl == getWordAnimations(args.mode)
        g == result.value
        spaces(v) == Cardinality({j \in 1..Len(v) : v[j] = " "})
        pos[k \in 1..(Len(g) + 1)] ==
          IF k = 1 THEN 1 ELSE pos[k - 1] + spaces(g[k - 1].value) + 1
        window(i, n) == JoinWords(SubSeq(words, i, i + n - 1))
        fits(i, n) == i + n - 1 <= Len(words) /\ HasAnim(tbl, window(i, n))
        isWord(item, key) ==
          /\ item.type = "word"
          /\ item.value = UpperSeq(key)
          /\ item.animation = AnimOf(tbl, key)
    IN  /\ \A k \in 1..Len(g) :
             LET i == pos[k]
             IN  /\ i <= Len(words)
                 /\ IF fits(i, 3) THEN isWord(g[k], window(i, 3))
                    ELSE IF fits(i, 2) THEN isWord(g[k], window(i, 2))
                    ELSE IF fits(i, 1) THEN isWord(g[k], words[i])
                    ELSE /\ g[k].type = "fingerspell"
                         /\ g[k].value = UpperSeq(words[i])
        /\ (args.text = TextThankYouVeryMuch /\ args.mode = "asl")
             => /\ Len(g) = 3
                /\ g[1].type = "word"
                /\ g[1].value = <<"T","H","A","N","K"," ","Y","O","U">>
                /\ g[2].value = <<"V","E","R","Y">>
                /\ g[3].value = <<"M","U","C","H">>

\* C12 witness: a phrase after a table key: GO, then THANK YOU as one item
C12_Witness ==
  /\ result # NoCall
  /\ args.text = JoinWords(<<<<"g","o">>, <<"t","h","a","n","k">>, <<"y","o","u">>>>)
  /\ Len(result.value) = 2
  /\ result.value[1].type = "word"
  /\ result.value[2].value = <<"T","H","A","N","K"," ","Y","O","U">>

C14_EmptyTextNeutralZero ==
  (result # NoCall /\ args.text = <<>>)
    => (result.value.emotion = "neutral" /\ result.value.intensity = 0)

\* C15: the category analyzeEmotion returns has the highest score, and is the
\* one with the strictly highest score when there is one; the intensity is
\* min(1, maxScore / 3), so it lies between 0 and 1 and is 1 when the winning
\* score is 3 or more.
C15_WinnerAndIntensity ==
  result # NoCall =>
    LET scores == EmotionScores(args.text)
        r == result.value
        top == scores[r.emotion]
    IN  /\ r.emotion \in EmotionTypes
        /\ \A e \in EmotionTypes : scores[e] <= top
        /\ \A e \in EmotionTypes :
             (\A o \in EmotionTypes \ {e} : scores[o] < scores[e]) => r.emotion = e
        /\ r.intensity * 3 * KeywordScore =
             (IF top < 3 * KeywordScore THEN top ELSE 3 * KeywordScore) * IntensityDen
        /\ 0 <= r.intensity
        /\ r.intensity <= IntensityDen
        /\ top >= 3 * KeywordScore => r.intensity = IntensityDen

\* C15 witness: three keywords of one category saturate the intensity
C15_Witness ==
  /\ result # NoCall
  /\ args.text = JoinWords(<<<<"s","a","d">>, <<"s","a","d">>, <<"s","a","d">>>>)
  /\ result.value.emotion = "sad"
  /\ result.value.intensity = IntensityDen

\* C16 as stated: generateLipSync returns one frame per character of the text,
\* in text order; the first frame is at time 0 and every later frame at the
\* time of its predecessor plus the predecessor's duration, so the times do
\* not decrease.
C16_OneFramePerCharacter ==
  (result # NoCall /\ args.fn = "generateLipSync") =>
    LET f == result.value.frames
    IN  /\ Len(f) = Len(args.text)
        /\ \A i \in 1..Len(f) : f[i].character = toLowerCase(args.text[i])
        /\ Len(f) > 0 => f[1].time = 0
        /\ \A i \in 1..(Len(f) - 1) :
             /\ f[i + 1].time = f[i].time + f[i].duration
             /\ f[i].time <= f[i + 1].time

\* C16, amended: generateLipSync returns one frame per character of the
\* lower-case form of the text, in that order; the first frame is at time 0
\* and every later frame at the time of its predecessor plus the
\* predecessor's duration, so the times do not decrease.
C16_OneFramePerLowercasedCharacter ==
  (result # NoCall /\ args.fn = "generateLipSync") =>
    LET f == result.value.frames
        chars == LowerSeq(args.text)
    IN  /\ Len(f) = Len(chars)
        /\ \A i \in 1..Len(f) : f[i].character = chars[i]
        /\ Len(f) > 0 => f[1].time = 0
        /\ \A i \in 1..(Len(f) - 1) :
             /\ f[i + 1].time = f[i].time + f[i].duration
             /\ f[i].time <= f[i + 1].time

\* C16 witness: vowels and consonants mixed: "aEb " at 150 words per minute
C16_Witness ==
  /\ result # NoCall
  /\ args.fn = "generateLipSync"
  /\ args.text = <<"a", "E", "b", " ">>
  /\ args.wordsPerMinute = 150
  /\ Len(result.value.frames) = 4
  /\ result.value.frames[4].time = 2 * VowelDurNum + OtherDurNum

\* C17: getVisemeAtTime returns the viseme of the last frame of the list whose
\* time is at most t, and rest when there is none: for the empty list and for
\* t = -1; on a list made by generateLipSync that is the viseme of the frame
\* whose interval from time to time + duration holds t, if there is one.
C17_LastFrameNotAfter ==
  (result # NoCall /\ args.fn = "getVisemeAtTime") =>
    LET fl == args.frames
        f == fl.frames
        t == args.currentTime * fl.wpm
        notAfter == {i \in 1..Len(f) : f[i].time <= t}
        last == CHOOSE i \in notAfter : \A j \in notAfter : j <= i
    IN  /\ result.value = IF notAfter = {} THEN "rest" ELSE f[last].viseme
        /\ Len(f) = 0 => result.value = "rest"
        /\ args.currentTime = -1 => result.value = "rest"
        /\ args.generated =>
             \A i \in 1..Len(f) :
               (f[i].time <= t /\ t < f[i].time + f[i].duration)
                 => result.value = f[i].viseme

\* C17 witness: 160 ms into "ab" at 60 words per minute is inside the first
\* frame, which lasts 260 ms
C17_Witness ==
  /\ result # NoCall
  /\ args.fn = "getVisemeAtTime"
  /\ args.generated
  /\ Len(args.frames.frames) = 2
  /\ args.frames.frames[2].character = "b"
  /\ args.currentTime = 160
  /\ result.value = "ae"

\* C18: interpolatePose(A, B, 0) has the numbers of A and interpolatePose(A,
\* B, 1) the numbers of B in every finger field and every wrist field, a pose
\* without wrist counting as one with pitch, yaw and roll 0.
C18_EndpointsExact ==
  (result # NoCall /\ args.fn = "interpolatePose") =>
    LET withWrist(p) ==
          [thumb |-> p.thumb, index |-> p.index, middle |-> p.middle,
           ring |-> p.ring, pinky |-> p.pinky,
           wrist |-> [pitch |-> WristOr0(p, "pitch"), yaw |-> WristOr0(p, "yaw"),
                      roll |-> WristOr0(p, "roll")]]
    IN  /\ args.t = Number("0") => result.value = withWrist(args.poseA)
        /\ args.t = Number("1") => result.value = withWrist(args.poseB)


\* C19: while a playback in signs mode runs from Start with no other handler
\* in between, an advancement callback that changes currentItemIndex raises
\* it by exactly 1, sets currentKeyframe and currentLetterIndex to 0 and runs
\* only when the current item is on its last keyframe (word) or last letter
\* (fingerspell); a callback that ends the playback runs only when that
\* exhausted item is the last of the sequence.
C19_ItemsInSequenceOrder ==
  [][(advancePlayback /\ advanceCount >= 0 /\ signMode = "signs") =>
       LET items == textToSignGloss(text, languageMode)
           item == ItemAt(items, currentItemIndex)
           exhausted ==
             /\ item # NoItem
             /\ IF item.type = "word"
                THEN currentKeyframe >= Len(item.animation.poses) - 1
                ELSE currentLetterIndex >= Len(item.letterPoses) - 1
       IN  /\ currentItemIndex' # currentItemIndex =>
                /\ currentItemIndex' = currentItemIndex + 1
                /\ currentKeyframe' = 0
                /\ currentLetterIndex' = 0
                /\ exhausted
           /\ (playing /\ ~playing') =>
                exhausted /\ currentItemIndex = Len(items) - 1]_vars

\* C20: while a playback in signs mode runs from Start with no other handler
\* in between and shows a fingerspell item with n letter poses at a letter
\* index within 0..n-1, an advancement callback raises currentLetterIndex by
\* one and stays on the item if the index is below n-1; at n-1 it moves to the
\* next item with the letter index 0 or, on the last item, ends the playback.
\* So the index never passes n-1.
C20_LettersInOrder ==
  [][(/\ advancePlayback
      /\ advanceCount >= 0
      /\ signMode = "signs"
      /\ CurrentItem(text, languageMode, signMode, currentItemIndex).type = "fingerspell"
      /\ currentLetterIndex <=
           Len(CurrentItem(text, languageMode, signMode,
                           currentItemIndex).letterPoses) - 1) =>
       LET items == textToSignGloss(text, languageMode)
           n == Len(ItemAt(items, currentItemIndex).letterPoses)
       IN  IF currentLetterIndex < n - 1
           THEN /\ currentLetterIndex' = currentLetterIndex + 1
                /\ currentItemIndex' = currentItemIndex
                /\ playing'
           ELSE IF currentItemIndex < Len(items) - 1
           THEN /\ currentItemIndex' = currentItemIndex + 1
                /\ currentLetterIndex' = 0
                /\ playing'
           ELSE ~playing']_vars


\* C21: in every settled state the displayed pose is determined by the
\* position: in signs mode on a word item with the keyframe in range it is the
\* animation pose at currentKeyframe, on a fingerspell item with the letter
\* index in range the letter pose at currentLetterIndex; in spell mode with a
\* current character it is that character's pose of the letter table, REST_POSE
\* for a space.
C21_PoseFollowsPosition ==
  LET item == CurrentItem(text, languageMode, signMode, currentItemIndex)
      ch == CurrentChar(text, signMode, currentLetterIndex)
  IN  /\ (signMode = "signs" /\ item.type = "word"
            /\ currentKeyframe + 1 \in 1..Len(item.animation.poses)) =>
           currentPose = item.animation.poses[currentKeyframe + 1]
      /\ (signMode = "signs" /\ item.type = "fingerspell"
            /\ currentLetterIndex + 1 \in 1..Len(item.letterPoses)) =>
           currentPose = item.letterPoses[currentLetterIndex + 1]
      /\ (signMode = "spell" /\ ch # "") =>
           currentPose = IF IsSpace(ch) THEN REST_POSE
                         ELSE getLetterPoses(languageMode)[ch]



\* C22: lerpViseme and lerpExpression return b's tag (name, emotion) for a
\* factor above 0.5 and a's tag for a factor of 0.5 or below, never anything
\* else, and every numeric field of the result is a + (b - a) * t of the same
\* field of a and b.
C22_TagSnapsFieldsInterpolate ==
  (result # NoCall /\ args.fn \in {"lerpViseme", "lerpExpression"}) =>
    LET tag == IF args.fn = "lerpViseme" THEN "name" ELSE "emotion"
        above == args.t \in {Number("0.75"), Number("1")}
        r == result.value
    IN  /\ DOMAIN r = DOMAIN args.a
        /\ r[tag] = IF above THEN args.b[tag] ELSE args.a[tag]
        /\ \A f \in DOMAIN r \ {tag} :
             r[f] = FAdd(args.a[f], FMul(FSub(args.b[f], args.a[f]), args.t))

\* a viseme interpolated at exactly 0.5 between two visemes of different
\* names keeps the first name, and one at 0.75 has the second
C22_Witness ==
  /\ result # NoCall
  /\ args.fn = "lerpViseme"
  /\ args.a.name # args.b.name
  /\ \/ args.t = Number("0.5") /\ result.value.name = args.a.name
     \/ args.t = Number("0.75") /\ result.value.name = args.b.name


\* C23: every frame of generateLipSync(text, wpm) lasts 1.3 times 60000 / wpm
\* / 5 ms if its character is one of a, e, i, o, u and 0.8 times that
\* otherwise; the frame of a character that is no key of CHAR_TO_VISEME (here
\* a digit, "!" or a combining mark) has the viseme rest, and a frame list is
\* returned for every text.
C23_DurationsAndRestDefault ==
  (result # NoCall /\ args.fn = "generateLipSync") =>
    LET frames == result.value.frames
        keys == LowerLetters \cup {" "}
    IN  /\ result.value.wpm = args.wordsPerMinute
        /\ DOMAIN frames = 1..Len(frames)
        /\ \A i \in 1..Len(frames) :
             /\ 10 * 5 * frames[i].duration =
                  60000 * (IF frames[i].character \in {"a", "e", "i", "o", "u"}
                           THEN 13 ELSE 8)
             /\ frames[i].character \notin keys => frames[i].viseme = "rest"

\* a text with a vowel, a consonant, a digit and a capital that lowercases to
\* a letter and a combining mark has been given frames
C23_Witness ==
  /\ result # NoCall
  /\ args.fn = "generateLipSync"
  /\ args.text = <<"a", "b", "4", CapitalIDotted>>
  /\ Len(result.value.frames) = 5
  /\ result.value.frames[1].duration = VowelDurNum
  /\ result.value.frames[3].viseme = "rest"
  /\ result.value.frames[5].character = CombiningDot
  /\ result.value.frames[5].viseme = "rest"


\* C24: in every state the position is inside the current sequence:
\* currentItemIndex is at least 0 and below the number of gloss items (below 1
\* when there is none), on a word item currentKeyframe is at most
\* poses.length - 1, on a fingerspell item currentLetterIndex is at most
\* letterPoses.length - 1, and in spell mode currentLetterIndex is below the
\* number of spell characters (below 1 when there is none).
C24_PositionInBounds ==
  LET items == textToSignGloss(text, languageMode)
      item == ItemAt(items, currentItemIndex)
      atLeast1(n) == IF n < 1 THEN 1 ELSE n
  IN  /\ currentItemIndex >= 0
      /\ currentItemIndex < atLeast1(Len(items))
      /\ (signMode = "signs" /\ item.type = "word") =>
           currentKeyframe <= Len(item.animation.poses) - 1
      /\ (signMode = "signs" /\ item.type = "fingerspell") =>
           currentLetterIndex <= Len(item.letterPoses) - 1
      /\ signMode = "spell" =>
           /\ currentLetterIndex >= 0
           /\ currentLetterIndex < atLeast1(Len(SpellChars(text)))


\* C25: in a playback during which stepForward, stepBackward or a jump was
\* performed, an advancement callback acts on the position that is current
\* when it fires: it leaves the item index, keyframe, letter index and playing
\* flag that advancePlayback decides from the current state, not those it
\* decides from the state of the render that scheduled it.
C25_AdvanceFromCurrentPosition ==
  [][(advancePlayback /\ playing /\ advanceCount = -1) =>
       LET d == AdvanceDecision(Closure)
       IN  /\ currentItemIndex' = currentItemIndex + d.dIdx
           /\ currentKeyframe' = d.kf
           /\ currentLetterIndex' = d.li
           /\ playing' = (d.kind # "stop")]_vars


\* C26: in every state, the mount with either value of the isPlaying prop
\* included, the timeline is playing exactly when one advancement timer is
\* pending: none while idle, exactly one while playing.
C26_PlayingIffOneTimer ==
  /\ playing => Cardinality(timeouts) = 1
  /\ ~playing => timeouts = {}


\* C27: while the current item is a word whose animation loops, an
\* advancement callback of a running playback keeps the item and the playback
\* and cycles the keyframe: it moves to the next keyframe, or from the last
\* keyframe back to 0.
C27_LoopWordCycles ==
  [][(/\ advancePlayback
      /\ playing
      /\ signMode = "signs"
      /\ CurrentItem(text, languageMode, signMode, currentItemIndex).type = "word"
      /\ CurrentItem(text, languageMode, signMode, currentItemIndex).animation.loop) =>
       LET item == CurrentItem(text, languageMode, signMode, currentItemIndex)
       IN  /\ currentItemIndex' = currentItemIndex
           /\ playing'
           /\ currentKeyframe' = IF currentKeyframe < Len(item.animation.poses) - 1
                                 THEN currentKeyframe + 1 ELSE 0]_vars


\* C28: the items of textToSignGloss(text, mode) consume the normalized words
\* once each and in order: every value is a non-empty run of whole words in
\* uppercase, the values joined with single spaces are the uppercase of the
\* normalized words joined with single spaces, and the lowercased values
\* joined give the normalized words joined.
C28_WordsConsumedInOrder ==
  (result # NoCall /\ args.fn = "textToSignGloss") =>
    LET items == result.value
        words == NormalizedWords(args.text)
        values == [k \in 1..Len(items) |-> items[k].value]
    IN  /\ \A k \in 1..Len(items) :
             /\ values[k] # <<>>
             /\ ~IsSpace(values[k][1])
             /\ ~IsSpace(values[k][Len(values[k])])
             /\ values[k] = UpperSeq(LowerSeq(values[k]))
        /\ JoinWords(values) = UpperSeq(JoinWords(words))
        /\ JoinWords([k \in 1..Len(items) |-> LowerSeq(values[k])]) = JoinWords(words)

\* a phrase item that consumed two words stands between two single-word items
C28_Witness ==
  /\ result # NoCall
  /\ args.fn = "textToSignGloss"
  /\ args.text = JoinWords(<<<<"n","o">>, <<"t","h","a","n","k">>, <<"y","o","u">>>>)
  /\ Len(result.value) = 2
  /\ result.value[2].value = <<"T","H","A","N","K"," ","Y","O","U">>


\* C29: every item textToSignGloss emits can be played: a word item carries an
\* animation of the word table of the mode, with at least one pose, and a
\* fingerspell item carries one letter pose per character of its value, at
\* least one; also for a word that names an inherited property of the table
\* object, such as constructor.
C29_ItemsWellFormed ==
  (result # NoCall /\ args.fn = "textToSignGloss") =>
    \A k \in 1..Len(result.value) :
      LET item == result.value[k]
      IN  /\ item.type \in {"word", "fingerspell"}
          /\ item.type = "word" =>
               /\ item.animation \in getWordAnimations(args.mode)
               /\ Len(item.animation.poses) >= 1
          /\ item.type = "fingerspell" =>
               /\ Len(item.letterPoses) = Len(item.value)
               /\ Len(item.letterPoses) >= 1

\* C30: when several categories share the highest score, analyzeEmotion
\* returns the earliest of them in the order neutral, happy, sad, surprised,
\* angry, thinking, excited, confused.  A token listed under several
\* categories adds 1 to each of them; every "!" adds 0.3 to excited and 0.2
\* to surprised, every "?" adds 0.3 to thinking and 0.2 to confused; so a
\* text without a keyword but with a "!" or a "?" is not classified neutral.
C30_TieBrokenByOrder ==
  (result # NoCall /\ args.fn = "analyzeEmotion") =>
    LET words == EmotionWords(args.text)
        order == <<"neutral", "happy", "sad", "surprised", "angry", "thinking",
                   "excited", "confused">>
        listed(w) == {e \in EmotionTypes : w \in EMOTION_KEYWORDS[e]}
        marks(c) == Cardinality({i \in 1..Len(args.text) : args.text[i] = c})
        tenths(e) ==
          (IF e = "neutral" THEN 1 ELSE 0)
            + 10 * Cardinality({i \in 1..Len(words) : e \in listed(words[i])})
            + (CASE e = "excited" -> 3 * marks("!")
                 [] e = "surprised" -> 2 * marks("!")
                 [] e = "thinking" -> 3 * marks("?")
                 [] e = "confused" -> 2 * marks("?")
                 [] OTHER -> 0)
        highest == {k \in 1..Len(order) :
                      \A j \in 1..Len(order) : tenths(order[j]) <= tenths(order[k])}
        first == CHOOSE k \in highest : \A j \in highest : k <= j
        noKeyword == \A i \in 1..Len(words) : listed(words[i]) = {}
    IN  /\ result.value.emotion = order[first]
        /\ (noKeyword /\ marks("!") + marks("?") >= 1)
             => result.value.emotion # "neutral"

====
